---- MODULE Spec2Model ----
(***************************************************************************)
(* Model of app.py, the Dash application of naplan-performance.            *)
(*                                                                         *)
(* State: the three data frames read at import time, the current value of  *)
(* every dropdown, the figure shown by every dcc.Graph, and what the last  *)
(* event did.  Operations: the page load (Dash's initial call of every     *)
(* callback) and one change event per dropdown, dispatched to the          *)
(* callbacks whose Input lists name that dropdown.                         *)
(*                                                                         *)
(* Floats are modelled as exact rationals [num, den] in lowest terms.      *)
(* A multi-select value is modelled as the set of its (distinct) entries.  *)
(***************************************************************************)
EXTENDS Integers, Sequences, FiniteSets, TLC

VARIABLES store, value, figure, fired, callback_error, loaded

vars == <<store, value, figure, fired, callback_error, loaded>>

(***************************************************************************)
(* Bounds and the universes the data frames are drawn from.                *)
(***************************************************************************)
MaxNaplanRows == 2
MaxIncomeRows == 2

\* School names, in Python's string order.
SchoolNames == <<"School A", "School B">>
DomainNames == <<"Numeracy", "Reading">>
Years == {2020, 2021}
YearLevels == {3, 5}
IncomeYears == {2020}

Range(s) == {s[i] : i \in DOMAIN s}
Schools == Range(SchoolNames)
Domains == Range(DomainNames)

(***************************************************************************)
(* Python values.                                                          *)
(***************************************************************************)
PyNone == [t |-> "NoneType", s |-> "", i |-> 0]
PyStr(s) == [t |-> "str", s |-> s, i |-> 0]
PyInt(i) == [t |-> "int", s |-> "", i |-> i]

\* str(v) of a scalar, as an f-string formats it.  Only strings and None are
\* ever formatted (result_domain); years are never formatted.
Str(v) == IF v.t = "str" THEN v.s ELSE "None"

\* An Optional[List[str]]: None, or a list held as the set of its entries.
NoneList == [none |-> TRUE, list |-> {}]
PyList(S) == [none |-> FALSE, list |-> S]

\* len() of a list.
Len_(l) == Cardinality(l.list)

Max(a, b) == IF a >= b THEN a ELSE b

(***************************************************************************)
(* Floats as rationals.                                                    *)
(***************************************************************************)
RECURSIVE GCD(_, _)
GCD(a, b) == IF b = 0 THEN a ELSE GCD(b, a % b)

Rat(n, d) == [num |-> n \div GCD(n, d), den |-> d \div GCD(n, d)]
Float(n) == [num |-> n, den |-> 1]
RatAdd(a, b) == Rat(a.num * b.den + b.num * a.den, a.den * b.den)
RatLeq(a, b) == a.num * b.den <= b.num * a.den
RatLess(a, b) == a.num * b.den < b.num * a.den

AvgValues == {Float(50), Float(70)}
DollarValues == {Float(9000), Float(12000)}

(***************************************************************************)
(* Rows of the three data frames.                                          *)
(***************************************************************************)
NaplanRow(s, d, y, l, a) ==
    [school_name |-> s, domain |-> d, results_year |-> y, year_level |-> l, avg |-> a]

IncomeRow(s, y, l, d) ==
    [school_name |-> s, year |-> y] @@ ("Net recurrent income" :> l) @@ ("$ per student" :> d)

TotalGrossIncome == "Total gross income"

\* The four labels of update_income_distribution's income_fields, in order.
DistributionFields ==
    << "Australian government recurrent funding",
       "State / territory government recurring funding",
       "Fees, charges and parent contributions",
       "Other private sources" >>

\* The label of update_recurrent_income's income_fields.
RecurrentFields == << TotalGrossIncome >>

IncomeLabelNames == DistributionFields \o RecurrentFields
IncomeLabels == Range(IncomeLabelNames)

NaplanRows ==
    { NaplanRow(s, d, y, l, a) :
        s \in Schools, d \in Domains, y \in Years, l \in YearLevels, a \in AvgValues }

IncomeRows ==
    { IncomeRow(s, y, l, d) :
        s \in Schools, y \in IncomeYears, l \in IncomeLabels, d \in DollarValues }

IndexOf(names, x) == CHOOSE i \in DOMAIN names : names[i] = x

RECURSIVE IntsLess(_, _)
\* Lexicographic order of tuples of integers.
IntsLess(a, b) ==
    IF a = <<>> \/ b = <<>> THEN FALSE
    ELSE \/ Head(a) < Head(b)
         \/ Head(a) = Head(b) /\ IntsLess(Tail(a), Tail(b))

NaplanRowKey(r) ==
    << IndexOf(SchoolNames, r.school_name), IndexOf(DomainNames, r.domain),
       r.results_year, r.year_level, r.avg.num >>

IncomeRowKey(r) ==
    << IndexOf(SchoolNames, r.school_name), r.year,
       IndexOf(IncomeLabelNames, r["Net recurrent income"]), r["$ per student"].num >>

\* The keys are in non-decreasing order.
Ordered(keys) == \A i \in 1..(Len(keys) - 1) : ~IntsLess(keys[i + 1], keys[i])

\* The files of up to n rows, one per multiset of rows: a file is listed
\* with its rows in the order of their keys.
NaplanFiles(n) ==
    { f \in UNION { [1..k -> NaplanRows] : k \in 0..n } :
        Ordered([ i \in DOMAIN f |-> NaplanRowKey(f[i]) ]) }

IncomeFiles(n) ==
    { f \in UNION { [1..k -> IncomeRows] : k \in 0..n } :
        Ordered([ i \in DOMAIN f |-> IncomeRowKey(f[i]) ]) }

\* The scenario of the specification: two schools, one year, one domain.
SampleNaplan ==
    << NaplanRow("School A", "Reading", 2020, 5, Float(70)),
       NaplanRow("School B", "Reading", 2020, 5, Float(50)),
       NaplanRow("School A", "Numeracy", 2021, 3, Float(50)) >>

SampleIncome ==
    << IncomeRow("School A", 2020, TotalGrossIncome, Float(12000)),
       IncomeRow("School A", 2020, "Other private sources", Float(9000)),
       IncomeRow("School B", 2020, "Fees, charges and parent contributions", Float(9000)) >>

SampleEnrolments ==
    << [school_name |-> "School A", year |-> 2020, enrolments |-> 300] >>

(***************************************************************************)
(* pandas.                                                                 *)
(***************************************************************************)
\* Series.isin(values) needs a list-like; None raises TypeError.
ListLike(values) == ~values.none

\* One element of Series.isin(values).
isin(x, values) == x \in values.list

RECURSIVE SumAvg(_)
SumAvg(rows) ==
    IF rows = <<>> THEN Float(0) ELSE RatAdd(rows[1].avg, SumAvg(Tail(rows)))

\* Fault: .sum() in place of .mean().
MeanAvg_sum(rows) == SumAvg(rows)

\* ["avg"].mean() of a non-empty group.
MeanAvg(rows) ==
    LET t == SumAvg(rows) IN Rat(t.num, t.den * Len(rows))

SchoolRank(s) == IndexOf(SchoolNames, s)

\* Order of group keys <<school_name, int, ...>>: groupby sorts its keys.
KeyLess(a, b) ==
    \/ SchoolRank(a[1]) < SchoolRank(b[1])
    \/ a[1] = b[1] /\ IntsLess(Tail(a), Tail(b))

RECURSIVE SortedKeys(_)
SortedKeys(K) ==
    IF K = {} THEN <<>>
    ELSE LET m == CHOOSE k \in K : \A o \in K \ {k} : KeyLess(k, o)
         IN  <<m>> \o SortedKeys(K \ {m})

\* The group key of row r for the columns by.
KeyOf(r, by) == [ k \in DOMAIN by |-> r[by[k]] ]

\* df.groupby(by)["avg"].mean().reset_index(): one row per key that occurs,
\* in key order, with the columns by and avg.
GroupByMean(df, by) ==
    LET keys == SortedKeys({ KeyOf(df[i], by) : i \in DOMAIN df })
    IN  [ j \in DOMAIN keys |->
            [ c \in Range(by) \cup {"avg"} |->
                IF c = "avg"
                THEN MeanAvg(SelectSeq(df, LAMBDA r : KeyOf(r, by) = keys[j]))
                ELSE keys[j][IndexOf(by, c)] ] ]

\* Insert row r into the avg-sorted rows after every row that is not larger.
RECURSIVE InsertByAvg(_, _)
InsertByAvg(r, rows) ==
    IF rows = <<>> THEN <<r>>
    ELSE IF RatLess(r.avg, Head(rows).avg) THEN <<r>> \o rows
    ELSE <<Head(rows)>> \o InsertByAvg(r, Tail(rows))

\* Fault: the frame is left in the order groupby gave it.
sort_values_omitted(df) == df

RECURSIVE sort_values(_)
\* df.sort_values(ascending=True, by="avg"): a new frame.
sort_values(df) ==
    IF df = <<>> THEN <<>>
    ELSE InsertByAvg(df[Len(df)], sort_values(SubSeq(df, 1, Len(df) - 1)))

(***************************************************************************)
(* The layout: dropdowns, graphs, and the values the dropdowns start with. *)
(***************************************************************************)
Dropdowns ==
    { "result-domain", "school-selection", "top-n-skill-selection", "results-year",
      "income-distribution-school-selection", "recurrent-income-school-selection" }

\* The dcc.Graph ids, in the order the callbacks are registered.
Graphs == << "income-distribution", "recurrent-income", "average-naplan-results", "top-schools" >>

SkillOptions == { "All", "Reading", "Writing", "Spelling", "Grammar", "Numeracy" }

\* value= of every dropdown in the layout; a dropdown without one starts as None.
InitialValue ==
    ( "result-domain" :> PyStr("All") ) @@
    ( "school-selection" :> NoneList ) @@
    ( "top-n-skill-selection" :> PyStr("All") ) @@
    ( "results-year" :> PyStr("All") ) @@
    ( "income-distribution-school-selection" :> NoneList ) @@
    ( "recurrent-income-school-selection" :> NoneList )

\* A graph before its callback has returned a figure.
NoFigure == [kind |-> "none", data |-> <<>>]

(***************************************************************************)
(* The callbacks.  Each takes the module's globals and its inputs and      *)
(* returns the figure, whether it raised, and the globals as it leaves     *)
(* them.                                                                   *)
(***************************************************************************)
Returned(fig, globals) == [error |-> FALSE, figure |-> fig, store |-> globals]
Raised(globals) == [error |-> TRUE, figure |-> NoFigure, store |-> globals]

\* Fault: None is passed on to isin.
DefaultSelection_omitted(school_selection) == school_selection

\* if school_selection is None: school_selection = []
DefaultSelection(school_selection) ==
    IF school_selection.none THEN PyList({}) ELSE school_selection

\* Fault: "Total gross income" left in income_fields.
income_distribution_plot_df_with_total(df, school_selection) ==
    LET income_fields == PyList(IncomeLabels)
    IN  SelectSeq(df, LAMBDA r :
            /\ isin(r["Net recurrent income"], income_fields)
            /\ isin(r.school_name, school_selection))

income_distribution_plot_df(df, school_selection) ==
    LET income_fields == PyList(Range(DistributionFields))
    IN  SelectSeq(df, LAMBDA r :
            /\ isin(r["Net recurrent income"], income_fields)
            /\ isin(r.school_name, school_selection))

update_income_distribution(globals, school_selection_arg) ==
    LET school_selection == DefaultSelection(school_selection_arg)
    IN  IF ~ListLike(school_selection) THEN Raised(globals)
        ELSE Returned(
               [ kind |-> "area",
                 data |-> income_distribution_plot_df(globals.recurrent_income_df, school_selection),
                 x |-> "year", y |-> "$ per student", color |-> "Net recurrent income",
                 color_discrete_map |-> [ i \in DOMAIN DistributionFields |-> <<DistributionFields[i], i - 1>> ],
                 facet_col |-> "school_name", facet_col_wrap |-> 1,
                 height |-> Max(300 * Len_(school_selection), 300) ],
               globals)

\* Fault: the school condition is missing from the mask.
recurrent_income_plot_df_all_schools(df, school_selection) ==
    LET income_fields == PyList(Range(RecurrentFields))
    IN  SelectSeq(df, LAMBDA r : isin(r["Net recurrent income"], income_fields))

recurrent_income_plot_df(df, school_selection) ==
    LET income_fields == PyList(Range(RecurrentFields))
    IN  SelectSeq(df, LAMBDA r :
            /\ isin(r["Net recurrent income"], income_fields)
            /\ isin(r.school_name, school_selection))

update_recurrent_income(globals, school_selection_arg) ==
    LET school_selection == DefaultSelection(school_selection_arg)
    IN  IF ~ListLike(school_selection) THEN Raised(globals)
        ELSE Returned(
               [ kind |-> "line",
                 data |-> recurrent_income_plot_df(globals.recurrent_income_df, school_selection),
                 x |-> "year", y |-> "$ per student", color |-> "school_name",
                 height |-> Max(300 * Len_(school_selection), 300) ],
               globals)

\* background_colour of update_naplan_results_per_year.
background_colour(school_selection_arg) ==
    IF school_selection_arg.none THEN "white" ELSE "#e5ecf6"

\* The branch result_domain == "All".
historical_all(df, school_selection) ==
    GroupByMean(SelectSeq(df, LAMBDA r : isin(r.school_name, school_selection)),
                <<"school_name", "results_year", "year_level">>)

\* Fault: the domain condition is missing from the mask.
historical_domain_any_domain(df, school_selection, result_domain) ==
    SelectSeq(df, LAMBDA r : isin(r.school_name, school_selection))

\* The branch of a specific result_domain.
historical_domain(df, school_selection, result_domain) ==
    SelectSeq(df, LAMBDA r :
        /\ isin(r.school_name, school_selection)
        /\ PyStr(r.domain) = result_domain)

naplan_results_plot_df(df, school_selection, result_domain) ==
    IF result_domain = PyStr("All")
    THEN historical_all(df, school_selection)
    ELSE historical_domain(df, school_selection, result_domain)

update_naplan_results_per_year(globals, school_selection_arg, result_domain) ==
    LET school_selection == DefaultSelection(school_selection_arg)
    IN  IF ~ListLike(school_selection) THEN Raised(globals)
        ELSE Returned(
               [ kind |-> "line",
                 data |-> naplan_results_plot_df(globals.naplan_results_df,
                                                 school_selection, result_domain),
                 x |-> "results_year", y |-> "avg", color |-> "school_name",
                 title |-> Str(result_domain) \o " NAPLAN Results",
                 facet_row |-> "year_level", markers |-> TRUE, height |-> 700,
                 plot_bgcolor |-> background_colour(school_selection_arg),
                 yaxis_title |-> IF result_domain = PyStr("All")
                                 THEN "Average NAPLAN Score" ELSE "NAPLAN Score" ],
               globals)

\* The branch results_year == "All".
top_ranked_all(df) ==
    GroupByMean(df, <<"school_name">>)

\* Fault: the rows are not filtered to the year before grouping.
top_ranked_year_unfiltered(df, results_year) ==
    GroupByMean(df, <<"school_name", "results_year">>)

\* The branch of a specific results_year.
top_ranked_year(df, results_year) ==
    GroupByMean(SelectSeq(df, LAMBDA r : PyInt(r.results_year) = results_year),
                <<"school_name", "results_year">>)

top_ranked_plot_df(df, results_year) ==
    sort_values(IF results_year = PyStr("All")
                THEN top_ranked_all(df)
                ELSE top_ranked_year(df, results_year))

\* Fault: naplan_results_df.sort_values(..., inplace=True) before grouping.
update_top_ranked_schools_inplace(globals, results_year) ==
    Returned(
      [ kind |-> "bar",
        data |-> top_ranked_plot_df(globals.naplan_results_df, results_year),
        y |-> "school_name", x |-> "avg", orientation |-> "h",
        title |-> "Top Schools by Average NAPLAN Results", height |-> 700 ],
      [globals EXCEPT !.naplan_results_df = sort_values(@)])

update_top_ranked_schools(globals, results_year) ==
    Returned(
      [ kind |-> "bar",
        data |-> top_ranked_plot_df(globals.naplan_results_df, results_year),
        y |-> "school_name", x |-> "avg", orientation |-> "h",
        title |-> "Top Schools by Average NAPLAN Results", height |-> 700 ],
      globals)

(***************************************************************************)
(* Dash: the Input lists of the @callback decorators and the dispatch.     *)
(***************************************************************************)
\* Fault: the skill dropdown wired to the top-schools callback.
CallbackInputs_with_skill ==
    ( "income-distribution" :> <<"income-distribution-school-selection">> ) @@
    ( "recurrent-income" :> <<"recurrent-income-school-selection">> ) @@
    ( "average-naplan-results" :> <<"school-selection", "result-domain">> ) @@
    ( "top-schools" :> <<"results-year", "top-n-skill-selection">> )

CallbackInputs ==
    ( "income-distribution" :> <<"income-distribution-school-selection">> ) @@
    ( "recurrent-income" :> <<"recurrent-income-school-selection">> ) @@
    ( "average-naplan-results" :> <<"school-selection", "result-domain">> ) @@
    ( "top-schools" :> <<"results-year">> )

\* Call the callback whose Output is graph g with the current input values.
Call(g, globals, val) ==
    LET in == CallbackInputs[g]
    IN  CASE g = "income-distribution" -> update_income_distribution(globals, val[in[1]])
          [] g = "recurrent-income" -> update_recurrent_income(globals, val[in[1]])
          [] g = "average-naplan-results" ->
                 update_naplan_results_per_year(globals, val[in[1]], val[in[2]])
          [] g = "top-schools" -> update_top_ranked_schools(globals, val[in[1]])

\* Run, in registration order, the callbacks of the graphs in G.  A callback
\* that raises leaves its graph's figure as it was.
RECURSIVE RunCallbacks(_, _, _, _, _)
RunCallbacks(k, G, globals, val, figs) ==
    IF k > Len(Graphs) THEN [store |-> globals, figure |-> figs, error |-> FALSE]
    ELSE IF Graphs[k] \notin G THEN RunCallbacks(k + 1, G, globals, val, figs)
    ELSE LET r == Call(Graphs[k], globals, val)
             rest == RunCallbacks(k + 1, G, r.store, val,
                        IF r.error THEN figs ELSE [figs EXCEPT ![Graphs[k]] = r.figure])
         IN  [rest EXCEPT !.error = r.error \/ @]

\* The graphs whose callback has dropdown d among its Inputs.
Triggered(d) == { g \in Range(Graphs) : d \in Range(CallbackInputs[g]) }

(***************************************************************************)
(* Events.                                                                 *)
(***************************************************************************)
\* The browser loads the page: every dropdown has its initial value and
\* Dash calls every callback once.
PageLoad ==
    /\ ~loaded
    /\ \E r \in { RunCallbacks(1, Range(Graphs), store, InitialValue, figure) } :
        /\ value' = InitialValue
        /\ store' = r.store
        /\ figure' = r.figure
        /\ callback_error' = r.error
        /\ fired' = Range(Graphs)
        /\ loaded' = TRUE

\* The user changes dropdown d to v: Dash calls the callbacks that have d
\* among their Inputs, with the current value of every input.
Change(d, v) ==
    /\ loaded
    /\ v # value[d]
    /\ \E r \in { RunCallbacks(1, Triggered(d), store, [value EXCEPT ![d] = v], figure) } :
           /\ value' = [value EXCEPT ![d] = v]
           /\ store' = r.store
           /\ figure' = r.figure
           /\ callback_error' = r.error
    /\ fired' = Triggered(d)
    /\ UNCHANGED loaded

\* What one click makes of a multi-select value: one more entry, one entry
\* fewer, or (the clear button) none left.
SelectionEdits(cur) ==
    { PyList(cur.list \cup {s}) : s \in Schools \ cur.list } \cup
    { PyList(cur.list \ {s}) : s \in cur.list } \cup
    { PyList({}) : s \in cur.list }

\* What a single-select dropdown can send: an option, or None when cleared.
DomainValues == { PyStr("All") } \cup { PyStr(d) : d \in Domains } \cup { PyNone }
YearValues == { PyStr("All") } \cup { PyInt(y) : y \in Years } \cup { PyNone }
SkillValues == { PyStr(k) : k \in SkillOptions } \cup { PyNone }

ChangeSchoolSelection ==
    \E v \in SelectionEdits(value["school-selection"]) : Change("school-selection", v)

ChangeResultDomain ==
    \E v \in DomainValues : Change("result-domain", v)

ChangeResultsYear ==
    \E v \in YearValues : Change("results-year", v)

ChangeSkillSelection ==
    \E v \in SkillValues : Change("top-n-skill-selection", v)

ChangeIncomeDistributionSelection ==
    \E v \in SelectionEdits(value["income-distribution-school-selection"]) :
        Change("income-distribution-school-selection", v)

ChangeRecurrentIncomeSelection ==
    \E v \in SelectionEdits(value["recurrent-income-school-selection"]) :
        Change("recurrent-income-school-selection", v)

(***************************************************************************)
(* Specifications.                                                         *)
(***************************************************************************)
\* The process after import: the frames are read, no page is loaded yet.
Started(enrolments, naplan, income) ==
    /\ store = [ enrolments_df |-> enrolments, naplan_results_df |-> naplan,
                 recurrent_income_df |-> income ]
    /\ value = InitialValue
    /\ figure = [ g \in Range(Graphs) |-> NoFigure ]
    /\ fired = {}
    /\ callback_error = FALSE
    /\ loaded = FALSE

\* Every event, over the sample files.
Init ==
    \E naplan \in {SampleNaplan, <<>>} :
        Started(SampleEnrolments, naplan, SampleIncome)

Next ==
    \/ PageLoad
    \/ ChangeSchoolSelection
    \/ ChangeResultDomain
    \/ ChangeResultsYear
    \/ ChangeSkillSelection
    \/ ChangeIncomeDistributionSelection
    \/ ChangeRecurrentIncomeSelection

Spec == Init /\ [][Next]_vars

\* The "Historical NAPLAN Results" tab, over every naplan_results.csv of up
\* to MaxNaplanRows rows.
InitNaplan ==
    \E naplan \in NaplanFiles(MaxNaplanRows) :
        Started(SampleEnrolments, naplan, SampleIncome)

NextHistorical ==
    \/ PageLoad
    \/ ChangeSchoolSelection
    \/ ChangeResultDomain

SpecHistorical == InitNaplan /\ [][NextHistorical]_vars

\* The "Top Schools" tab, over the same files.
NextTopSchools ==
    \/ PageLoad
    \/ ChangeResultsYear

SpecTopSchools == InitNaplan /\ [][NextTopSchools]_vars

\* The two income tabs, over every recurrent_income.csv of up to
\* MaxIncomeRows rows.
InitIncome ==
    \E income \in IncomeFiles(MaxIncomeRows) :
        Started(SampleEnrolments, SampleNaplan, income)

NextIncome ==
    \/ PageLoad
    \/ ChangeIncomeDistributionSelection
    \/ ChangeRecurrentIncomeSelection

SpecIncome == InitIncome /\ [][NextIncome]_vars

(***************************************************************************)
(* Properties.                                                             *)
(***************************************************************************)
naplan == store.naplan_results_df
income == store.recurrent_income_df

Historical == figure["average-naplan-results"]
TopSchools == figure["top-schools"]
IncomeDistribution == figure["income-distribution"]
RecurrentIncome == figure["recurrent-income"]

\* The schools a selection names; none when it is None.
Chosen(d) == IF value[d].none THEN {} ELSE value[d].list

\* How often row r occurs in frame df.
Count(r, df) == Cardinality({ i \in DOMAIN df : df[i] = r })

\* The sum of the (whole-number) avg of the rows of naplan with index in I.
RECURSIVE Total(_)
Total(I) ==
    IF I = {} THEN 0
    ELSE LET i == CHOOSE i \in I : TRUE IN naplan[i].avg.num + Total(I \ {i})

\* avg is the arithmetic mean of the rows of naplan with index in I.
IsMean(avg, I) == I # {} /\ avg.den > 0 /\ avg.num * Cardinality(I) = avg.den * Total(I)

HistoricalKey(r) == <<r.school_name, r.results_year, r.year_level>>

\* The rows of naplan that belong to the group of key k, among the selected
\* schools.
HistoricalGroup(k) ==
    { i \in DOMAIN naplan :
        /\ naplan[i].school_name \in Chosen("school-selection")
        /\ HistoricalKey(naplan[i]) = k }

\* C1: with domain "All" the historical chart has exactly one row per
\* (school_name, results_year, year_level) that occurs in a row of a selected
\* school, its avg is the mean of the avg of all source rows of that
\* combination, and no other row.
C1_HistoricalAllMeans ==
    (loaded /\ value["result-domain"] = PyStr("All")) =>
        LET out == Historical.data
        IN  /\ \A i \in DOMAIN naplan :
                 naplan[i].school_name \in Chosen("school-selection") =>
                    Cardinality({ j \in DOMAIN out :
                        HistoricalKey(out[j]) = HistoricalKey(naplan[i]) }) = 1
            /\ \A j \in DOMAIN out :
                 /\ out[j].school_name \in Chosen("school-selection")
                 /\ IsMean(out[j].avg, HistoricalGroup(HistoricalKey(out[j])))

\* A selected school's group of two rows of different domains and different
\* avg, shown as one row.
C1_Witness ==
    /\ loaded
    /\ value["result-domain"] = PyStr("All")
    /\ Len(Historical.data) = 1
    /\ \E i, k \in HistoricalGroup(HistoricalKey(Historical.data[1])) :
          naplan[i].domain # naplan[k].domain /\ naplan[i].avg # naplan[k].avg

\* Row r passes the filter of the historical chart's specific-domain branch.
HistoricalKeeps(r) ==
    /\ r.school_name \in Chosen("school-selection")
    /\ value["result-domain"].t = "str"
    /\ r.domain = value["result-domain"].s

\* C2: with a specific domain the historical chart's rows are exactly the
\* multiset of source rows of a selected school and of that domain; repeated
\* source rows all appear.
C2_HistoricalDomainRows ==
    (loaded /\ value["result-domain"] # PyStr("All")) =>
        LET out == Historical.data
        IN  \A r \in Range(naplan) \cup Range(out) :
                Count(r, out) = IF HistoricalKeeps(r) THEN Count(r, naplan) ELSE 0

\* A repeated source row shown twice.
C2_Witness ==
    /\ loaded
    /\ value["result-domain"] = PyStr("Reading")
    /\ Len(Historical.data) >= 2
    /\ Historical.data[1] = Historical.data[2]

\* C3: the top-schools rows are in non-decreasing order of avg, whatever
\* year is selected.
C3_TopSchoolsSorted ==
    loaded =>
        LET out == TopSchools.data
        IN  \A j \in 1..(Len(out) - 1) : RatLeq(out[j].avg, out[j + 1].avg)

\* Two schools whose order by avg is the reverse of their order by name.
C3_Witness ==
    /\ loaded
    /\ Len(TopSchools.data) >= 2
    /\ TopSchools.data[1].school_name = "School B"
    /\ TopSchools.data[2].school_name = "School A"
    /\ RatLess(TopSchools.data[1].avg, TopSchools.data[2].avg)

\* The rows of naplan of school s that the selected year takes in.
TopSchoolsGroup(s) ==
    { i \in DOMAIN naplan :
        /\ naplan[i].school_name = s
        /\ \/ value["results-year"] = PyStr("All")
           \/ /\ value["results-year"].t = "int"
              /\ naplan[i].results_year = value["results-year"].i }

\* C4: the top-schools chart has exactly one row per school with a row in
\* the selected year (every school for "All"), and its avg is the mean of
\* that school's rows of that year (of all years for "All").
C4_TopSchoolsOneRowPerSchool ==
    loaded =>
        LET out == TopSchools.data
        IN  /\ \A s \in Schools :
                 Cardinality({ j \in DOMAIN out : out[j].school_name = s }) =
                    IF TopSchoolsGroup(s) # {} THEN 1 ELSE 0
            /\ \A j \in DOMAIN out :
                 IsMean(out[j].avg, TopSchoolsGroup(out[j].school_name))

\* A specific year is selected and the one school shown also has a row, with
\* another avg, in the other year.
C4_Witness ==
    /\ loaded
    /\ value["results-year"] = PyInt(2020)
    /\ Len(TopSchools.data) = 1
    /\ \E i, k \in DOMAIN naplan :
          /\ naplan[i].school_name = TopSchools.data[1].school_name
          /\ naplan[k].school_name = TopSchools.data[1].school_name
          /\ naplan[i].results_year = 2020
          /\ naplan[k].results_year = 2021
          /\ naplan[i].avg # naplan[k].avg

FundingSources ==
    { "Australian government recurrent funding",
      "State / territory government recurring funding",
      "Fees, charges and parent contributions",
      "Other private sources" }

\* C5: no income-distribution row is a "Total gross income" row, every row
\* is of one of the four funding sources and of a selected school, and every
\* such source row is shown, as often as it occurs.
C5_IncomeDistributionRows ==
    loaded =>
        LET out == IncomeDistribution.data
            sel == Chosen("income-distribution-school-selection")
        IN  /\ \A j \in DOMAIN out :
                 /\ out[j]["Net recurrent income"] # "Total gross income"
                 /\ out[j]["Net recurrent income"] \in FundingSources
                 /\ out[j].school_name \in sel
            /\ \A r \in Range(income) :
                 (r["Net recurrent income"] \in FundingSources /\ r.school_name \in sel)
                    => Count(r, out) = Count(r, income)

\* A selected school with a funding-source row shown and a total row left out.
C5_Witness ==
    /\ loaded
    /\ Len(IncomeDistribution.data) >= 1
    /\ \E i \in DOMAIN income :
          /\ income[i]["Net recurrent income"] = "Total gross income"
          /\ income[i].school_name = IncomeDistribution.data[1].school_name

\* C6: every recurrent-income row is a "Total gross income" row of a
\* selected school, and every such source row is shown, as often as it
\* occurs.
C6_RecurrentIncomeRows ==
    loaded =>
        LET out == RecurrentIncome.data
            sel == Chosen("recurrent-income-school-selection")
        IN  /\ \A j \in DOMAIN out :
                 /\ out[j]["Net recurrent income"] = "Total gross income"
                 /\ out[j].school_name \in sel
            /\ \A r \in Range(income) :
                 (r["Net recurrent income"] = "Total gross income" /\ r.school_name \in sel)
                    => Count(r, out) = Count(r, income)

\* One school's total row shown, the other school's total row left out.
C6_Witness ==
    /\ loaded
    /\ Len(RecurrentIncome.data) = 1
    /\ \E i \in DOMAIN income :
          /\ income[i]["Net recurrent income"] = "Total gross income"
          /\ income[i].school_name # RecurrentIncome.data[1].school_name

\* C7: no callback raises, and a school selection that is None or an empty
\* list gives a chart with 0 rows, for the historical chart (either branch)
\* and both income charts; the top-schools chart is drawn whatever is
\* selected.
C7_EmptySelectionNoError ==
    loaded =>
        /\ ~callback_error
        /\ \A g \in Range(Graphs) : figure[g].kind # "none"
        /\ Chosen("school-selection") = {} => Len(Historical.data) = 0
        /\ Chosen("income-distribution-school-selection") = {}
              => Len(IncomeDistribution.data) = 0
        /\ Chosen("recurrent-income-school-selection") = {}
              => Len(RecurrentIncome.data) = 0

\* One selection never made, one cleared, one cleared with a specific
\* domain chosen.
C7_Witness ==
    /\ loaded
    /\ value["income-distribution-school-selection"].none
    /\ value["recurrent-income-school-selection"] = PyList({})
    /\ value["school-selection"] = PyList({})
    /\ value["result-domain"] = PyStr("Reading")
    /\ Len(naplan) > 0

\* C8: whenever no school is selected, by a selection never made or by one
\* cleared to an empty list, the historical chart has the "no selection"
\* background colour, which is not the colour of a chart with a selection.
C8_NoSelectionColour ==
    loaded =>
        /\ Chosen("school-selection") = {} => Historical.plot_bgcolor = "white"
        /\ Chosen("school-selection") # {} => Historical.plot_bgcolor # "white"

\* C9: no event changes any of the three loaded data frames.
C9_StoreReadOnly == [][store' = store]_vars

\* Every dropdown has been changed since the page was loaded, and the data
\* frames are those read from the files.
C9_Witness ==
    /\ loaded
    /\ \A d \in Dropdowns : value[d] # InitialValue[d]
    /\ store = [ enrolments_df |-> SampleEnrolments, naplan_results_df |-> SampleNaplan,
                 recurrent_income_df |-> SampleIncome ]

\* The graph each dropdown feeds, as the decorators read.
WiredTo(d) ==
    CASE d = "income-distribution-school-selection" -> {"income-distribution"}
      [] d = "recurrent-income-school-selection" -> {"recurrent-income"}
      [] d \in {"school-selection", "result-domain"} -> {"average-naplan-results"}
      [] d = "results-year" -> {"top-schools"}
      [] d = "top-n-skill-selection" -> {}

\* C10: a change of one dropdown runs the callback of the graph wired to it,
\* once, and no other; every other graph keeps its figure; a change of the
\* skill dropdown runs no callback and changes no figure.
C10_OnlyOwnChart ==
    [][ loaded =>
          \A d \in Dropdowns :
             value'[d] # value[d] =>
                /\ fired' = WiredTo(d)
                /\ \A g \in Range(Graphs) \ WiredTo(d) : figure'[g] = figure[g]
      ]_vars

\* The skill was just changed: nothing ran.
C10_Witness ==
    /\ loaded
    /\ value["top-n-skill-selection"] = PyStr("Numeracy")
    /\ value["results-year"] = PyInt(2021)
    /\ fired = {}

====
